---- MODULE Spec2Model ----
(***************************************************************************)
(* A model of bitbucket-cascade-merge: the version comparator, the cascade *)
(* builder, the cascade merge engine of the repository client and the      *)
(* single worker that drains the bounded event channel.                    *)
(*                                                                         *)
(* Branch names are kept as strings in the state; every operation of the   *)
(* code that looks inside a name (HasPrefix, TrimPrefix, Split, Atoi) is   *)
(* computed on the name's spelling, a sequence of one-character strings.   *)
(***************************************************************************)
EXTENDS Integers, Sequences, FiniteSets, TLC

VARIABLES
    v1, v2, v3,     \* compareVersions: the three version strings compared
    cmpOut,         \* compareVersions: <<>> or the results of the calls made
    bEnum,          \* BuildCascade: the remote branches in enumeration order
    bOpts,          \* BuildCascade: the CascadeOptions
    bStart,         \* BuildCascade: startBranch
    bOut,           \* BuildCascade: <<>> or <<base, truncated, result>>
    arrivals,       \* the webhook events the inbound handler has yet to enqueue
    events,         \* the buffered channel between handler and worker
    received,       \* the ids of the events taken from the channel, in order
    running,        \* FALSE once a panic has ended the process
    wpc,            \* per worker: the statement it is at
    cur,            \* per worker: e, the event being handled
    client,         \* per worker: c # nil
    opts,           \* per worker: the CascadeOptions read for the event
    prCalls,        \* per worker: the CreatePullRequest calls made for the event
    lookups,        \* per worker: the lookups made for the event and how they ended
    lastRun,        \* the engine run that returned last, and the remote it left
    source,         \* per engine run: source
    target,         \* per engine run: target
    cascade,        \* per engine run: the Cascade built
    state,          \* per engine run: the CascadeMergeState returned
    steps,          \* per engine run: the client calls made, in order
    cloned,         \* the local repository exists at the path of the repository
    commits,        \* the commit graph: commits[c] is the parents of commit c
    remote,         \* refs/heads/* of the remote
    tracking,       \* refs/remotes/origin/* of the local repository
    locals,         \* refs/heads/* of the local repository
    head            \* the local branch HEAD points to

cmpVars == <<v1, v2, v3, cmpOut>>
buildVars == <<bEnum, bOpts, bStart, bOut>>
chanVars == <<arrivals, events, received>>
workerVars == <<wpc, cur, client, opts, prCalls, lookups>>
engineVars == <<source, target, cascade, state, steps>>
repoVars == <<cloned, commits, remote, tracking, locals, head>>
pipelineVars == <<chanVars, running, workerVars, engineVars, repoVars, lastRun>>
vars == <<cmpVars, buildVars, pipelineVars>>

(***************************************************************************)
(* Bounds of the model.                                                    *)
(***************************************************************************)
MaxVerLen == 2      \* longest version string compared, in characters
MaxBranches == 3    \* most remote branches enumerated for BuildCascade
MaxEvents == 2      \* most webhook events delivered in one behaviour

(***************************************************************************)
(* Constants of the program.                                               *)
(***************************************************************************)
TwoWorkers == 1 + 1  \* go worker(events), twice
QueueCap == 100     \* events := make(chan PullRequestEvent, 100)
NumWorkers == 1     \* go worker(events), once

(***************************************************************************)
(* Strings as sequences of characters.                                     *)
(***************************************************************************)
Digits == <<"0", "1", "2", "3", "4", "5", "6", "7", "8", "9">>

IsDigit(ch) == \E d \in 1..10 : Digits[d] = ch

DigitValue(ch) == (CHOOSE d \in 1..10 : Digits[d] = ch) - 1

\* strings.HasPrefix(s, prefix)
HasPrefix(s, prefix) ==
    /\ Len(prefix) <= Len(s)
    /\ SubSeq(s, 1, Len(prefix)) = prefix

\* strings.TrimPrefix(s, prefix)
TrimPrefix(s, prefix) ==
    IF HasPrefix(s, prefix) THEN SubSeq(s, Len(prefix) + 1, Len(s)) ELSE s

\* strings.Split(s, "."): always at least one part, empty parts are kept
RECURSIVE SplitFrom(_, _, _)
SplitFrom(s, i, part) ==
    IF i > Len(s) THEN <<part>>
    ELSE IF s[i] = "." THEN <<part>> \o SplitFrom(s, i + 1, <<>>)
    ELSE SplitFrom(s, i + 1, Append(part, s[i]))

Split(s) == SplitFrom(s, 1, <<>>)

RECURSIVE DecimalValue(_)
DecimalValue(ds) ==
    IF ds = <<>> THEN 0
    ELSE 10 * DecimalValue(SubSeq(ds, 1, Len(ds) - 1)) + DigitValue(ds[Len(ds)])

\* n, _ := strconv.Atoi(s): an optional sign and at least one decimal digit;
\* anything else is a syntax error, whose value, 0, is what the caller keeps.
\* (A range error needs 19 digits or more; the strings modelled are shorter.)
Atoi(s) ==
    LET signed == s # <<>> /\ s[1] \in {"+", "-"}
        ds == IF signed THEN Tail(s) ELSE s
    IN  IF ds = <<>> \/ \E i \in 1..Len(ds) : ~IsDigit(ds[i]) THEN 0
        ELSE IF signed /\ s[1] = "-" THEN 0 - DecimalValue(ds)
        ELSE DecimalValue(ds)

(***************************************************************************)
(* compareVersions                                                         *)
(***************************************************************************)
RECURSIVE compareParts(_, _, _)
compareParts(v1Parts, v2Parts, i) ==
    IF i <= Len(v1Parts) /\ i <= Len(v2Parts)
    THEN LET n1 == Atoi(v1Parts[i])
             n2 == Atoi(v2Parts[i])
         IN  IF n1 < n2 THEN -1
             ELSE IF n1 > n2 THEN 1
             ELSE compareParts(v1Parts, v2Parts, i + 1)
    ELSE IF Len(v1Parts) < Len(v2Parts) THEN -1
    ELSE IF Len(v1Parts) > Len(v2Parts) THEN 1
    ELSE 0

\* compareVersions without the comparison of the lengths
compareVersionsCommonPartsOnly(a, b) ==
    LET v1Parts == Split(a)
        v2Parts == Split(b)
        n == IF Len(v1Parts) < Len(v2Parts) THEN Len(v1Parts) ELSE Len(v2Parts)
    IN  compareParts(SubSeq(v1Parts, 1, n), SubSeq(v2Parts, 1, n), 1)

compareVersions(a, b) == compareParts(Split(a), Split(b), 1)

(***************************************************************************)
(* The names of the model and their spelling.                              *)
(***************************************************************************)
DefaultMaster == "master"

Spelling(name) ==
    CASE name = "develop" -> <<"d", "e", "v", "e", "l", "o", "p">>
      [] name = "development" -> <<"d", "e", "v", "e", "l", "o", "p", "m", "e", "n", "t">>
      [] name = "development-2" -> <<"d", "e", "v", "e", "l", "o", "p", "m", "e", "n", "t", "-", "2">>
      [] name = "master" -> <<"m", "a", "s", "t", "e", "r">>
      [] name = "release/1.0" -> <<"r", "e", "l", "e", "a", "s", "e", "/", "1", ".", "0">>
      [] name = "release/1.2" -> <<"r", "e", "l", "e", "a", "s", "e", "/", "1", ".", "2">>
      [] name = "release/1.00" -> <<"r", "e", "l", "e", "a", "s", "e", "/", "1", ".", "0", "0">>
      [] name = "release/1.10" -> <<"r", "e", "l", "e", "a", "s", "e", "/", "1", ".", "1", "0">>
      [] name = "release/1.0.1" -> <<"r", "e", "l", "e", "a", "s", "e", "/", "1", ".", "0", ".", "1">>
      [] name = "hotfix/1.1" -> <<"h", "o", "t", "f", "i", "x", "/", "1", ".", "1">>
      [] name = "feature/x" -> <<"f", "e", "a", "t", "u", "r", "e", "/", "x">>
      [] name = "release/" -> <<"r", "e", "l", "e", "a", "s", "e", "/">>
      [] name = "m" -> <<"m">>

\* the remote branches a repository may hold
BranchNames ==
    {"development", "master", "release/1.0", "release/1.2", "release/1.00",
     "release/1.10", "release/1.0.1", "hotfix/1.1"}

\* a branch no remote holds
UnknownBranch == "feature/x"

\* the CascadeOptions the hosting API may answer
CascadeOptions(developmentName, releasePrefix) ==
    [DevelopmentName |-> developmentName, ReleasePrefix |-> releasePrefix]

OptionsSet ==
    {CascadeOptions("development", "release/"),
     CascadeOptions("master", "release/"),
     CascadeOptions("development", "m")}

(***************************************************************************)
(* Cascade: the ordered branch names and the cursor.                       *)
(***************************************************************************)
NewCascade == [Branches |-> <<>>, Current |-> 0]

\* Cascade.Append: adds to the end, no de-duplication
CascadeAppend(c, name) == [c EXCEPT !.Branches = Append(c.Branches, name)]

\* first index of name in s, 0 when absent
RECURSIVE IndexFrom(_, _, _)
IndexFrom(s, name, i) ==
    IF i > Len(s) THEN 0
    ELSE IF s[i] = name THEN i
    ELSE IndexFrom(s, name, i + 1)

IndexOf(s, name) == IndexFrom(s, name, 1)

\* Cascade.Slice: keeps what follows startBranch, everything when it is absent
CascadeSlice(c, startBranch) ==
    LET i == IndexOf(c.Branches, startBranch)
    IN  IF i = 0 THEN c
        ELSE [c EXCEPT !.Branches = SubSeq(c.Branches, i + 1, Len(c.Branches))]

\* Cascade.Next: the element after the cursor, "" once exhausted
CascadeNextName(c) ==
    IF c.Current < Len(c.Branches) THEN c.Branches[c.Current + 1] ELSE ""

CascadeAdvance(c) ==
    IF c.Current < Len(c.Branches) THEN [c EXCEPT !.Current = c.Current + 1] ELSE c

(***************************************************************************)
(* BuildCascade                                                            *)
(***************************************************************************)
\* the less function given to sort.Slice
ReleaseLess(options, a, b) ==
    compareVersions(TrimPrefix(Spelling(a), Spelling(options.ReleasePrefix)),
                    TrimPrefix(Spelling(b), Spelling(options.ReleasePrefix))) < 0

\* sort.Slice on at most 12 elements is an insertion sort: each element moves
\* left past every neighbour it is less than.
RECURSIVE InsertLeft(_, _, _)
InsertLeft(options, s, j) ==
    IF j > 1 /\ ReleaseLess(options, s[j], s[j - 1])
    THEN InsertLeft(options,
                    [s EXCEPT ![j] = s[j - 1], ![j - 1] = s[j]], j - 1)
    ELSE s

RECURSIVE InsertionSortFrom(_, _, _)
InsertionSortFrom(options, s, i) ==
    IF i > Len(s) THEN s
    ELSE InsertionSortFrom(options, InsertLeft(options, s, i), i + 1)

\* the release branches left in the order of the enumeration
Unsorted(options, s) == s

SortSlice(options, s) == InsertionSortFrom(options, s, 2)

\* the iterator.ForEach callback: the development slot, filled on the way
DevelopmentSlot(options, enum) ==
    SelectSeq(enum, LAMBDA b : b = options.DevelopmentName)

\* the iterator.ForEach callback: the release candidates, in enumeration order
ReleaseCandidates(options, enum) ==
    SelectSeq(enum, LAMBDA b :
        /\ b # options.DevelopmentName
        /\ HasPrefix(Spelling(b), Spelling(options.ReleasePrefix)))

\* cascade.Branches before cascade.Slice
BaseSequence(options, enum) ==
    DevelopmentSlot(options, enum) \o SortSlice(options, ReleaseCandidates(options, enum))

\* BuildCascade without the call of cascade.Slice
TruncatedNotSliced(options, enum, startBranch) ==
    [NewCascade EXCEPT !.Branches = BaseSequence(options, enum)]

\* cascade.Branches after cascade.Slice(startBranch)
Truncated(options, enum, startBranch) ==
    CascadeSlice([NewCascade EXCEPT !.Branches = BaseSequence(options, enum)],
                 startBranch)

\* DefaultMaster appended without the search for it
MasterAppended(c) == CascadeAppend(c, DefaultMaster)

\* DefaultMaster moved to the end when present, appended otherwise
MasterLast(c) ==
    LET masterIndex == IndexOf(c.Branches, DefaultMaster)
    IN  IF masterIndex # 0
        THEN [c EXCEPT !.Branches =
                 Append(SubSeq(c.Branches, 1, masterIndex - 1)
                            \o SubSeq(c.Branches, masterIndex + 1, Len(c.Branches)),
                        DefaultMaster)]
        ELSE CascadeAppend(c, DefaultMaster)

BuildCascade(options, enum, startBranch) ==
    MasterLast(Truncated(options, enum, startBranch))

(***************************************************************************)
(* The variables of a part of the model that a specification leaves alone. *)
(***************************************************************************)
NoBuild ==
    /\ bEnum = <<>>
    /\ bOpts = CascadeOptions("development", "release/")
    /\ bStart = ""
    /\ bOut = <<>>

NoCompare ==
    /\ v1 = <<>>
    /\ v2 = <<>>
    /\ v3 = <<>>
    /\ cmpOut = <<>>

\* the orders in which an iterator may give the members of a set
Reorderings(S) ==
    {p \in [1..Cardinality(S) -> S] : \A i, j \in 1..Cardinality(S) : p[i] = p[j] => i = j}

(***************************************************************************)
(* The repository: a commit graph and three sets of references.            *)
(***************************************************************************)
\* the branches of the remote at the start, each with a commit of its own on
\* top of the root commit 1
InitialCommits == << <<>>, <<1>>, <<1>>, <<1>>, <<1>> >>

InitialRemote ==
    [b \in {"development", "release/1.0", "release/1.2", "master"} |->
        CASE b = "development" -> 2
          [] b = "release/1.0" -> 3
          [] b = "release/1.2" -> 4
          [] b = "master" -> 5]

NoRefs == [b \in {} |-> 0]

SetRef(refs, b, c) == [x \in DOMAIN refs \cup {b} |-> IF x = b THEN c ELSE refs[x]]

DropRefs(refs, gone) == [x \in DOMAIN refs \ gone |-> refs[x]]

RECURSIVE AncestorsIn(_, _)
AncestorsIn(graph, c) ==
    {c} \cup UNION {AncestorsIn(graph, graph[c][i]) : i \in 1..Len(graph[c])}

\* c and every commit reachable from it
Ancestors(c) == AncestorsIn(commits, c)

\* the commits a two-parent commit of (first, second) leaves in the object
\* database; the same parents, tree, signature and message are the same object
WithMergeCommit(graph, first, second) ==
    IF \E c \in 1..Len(graph) : graph[c] = <<first, second>>
    THEN graph
    ELSE Append(graph, <<first, second>>)

MergeCommitId(graph, first, second) ==
    CHOOSE c \in 1..Len(graph) : graph[c] = <<first, second>>

(***************************************************************************)
(* The events and the channel.                                             *)
(***************************************************************************)
\* the destinations of the merged pull requests delivered: the development
\* branch, a branch whose name goes on after the development name, the first
\* release branch and the stable branch
Destinations == {"development", "development-2", "release/1.0", "master"}

NoEvent == [id |-> 0, dest |-> ""]

\* the deliveries of a behaviour: MaxEvents events, numbered as they arrive
Deliveries ==
    {[i \in 1..MaxEvents |-> [id |-> i, dest |-> d[i]]] :
        d \in [1..MaxEvents -> Destinations]}

\* enough skipped events to fill the channel before the worker takes one,
\* then two that run the engine, the last of them sent by a waiting sender
Burst ==
    [i \in 1..(QueueCap + 2) |->
        [id |-> i, dest |-> IF i <= QueueCap THEN "development" ELSE "release/1.0"]]

\* the options the hosting API answers for the repository
RepositoryOptions == {CascadeOptions("development", "release/")}

NoOptions == CascadeOptions("", "")

Workers == 1..NumWorkers

\* a receive that takes the newest event
ChanRecvNewest(ch) == [value |-> ch[Len(ch)], rest |-> SubSeq(ch, 1, Len(ch) - 1)]

\* for e := range event: the value received and what stays buffered
ChanRecv(ch) == [value |-> Head(ch), rest |-> Tail(ch)]

\* events <- e on a channel of capacity QueueCap: possible when not full
ChanCanSend(ch) == Len(ch) < QueueCap

(***************************************************************************)
(* The state of the pipeline after main has started the worker.            *)
(***************************************************************************)
\* no engine run has returned yet
NoRun == [trigger |-> "", failed |-> TRUE, remote |-> <<>>, commits |-> 0]

\* the run for the trigger that has returned, with the state it returned,
\* the remote refs and the number of commits there are at its return
RunOf(trigger, failed, refs, graph) ==
    [trigger |-> trigger, failed |-> failed, remote |-> refs, commits |-> Len(graph)]

NilState == [failed |-> FALSE, Source |-> "", Target |-> ""]

\* &CascadeMergeState{Source: s, Target: t, error: err}
Failure(s, t) == [failed |-> TRUE, Source |-> s, Target |-> t]

Step(op, from, branch, ok) == [op |-> op, from |-> from, branch |-> branch, ok |-> ok]

PipelineStart(deliveries) ==
    /\ arrivals = deliveries
    /\ events = <<>>
    /\ received = <<>>
    /\ running = TRUE
    /\ wpc = [w \in Workers |-> "Receive"]
    /\ cur = [w \in Workers |-> NoEvent]
    /\ client = [w \in Workers |-> FALSE]
    /\ opts = [w \in Workers |-> NoOptions]
    /\ prCalls = [w \in Workers |-> <<>>]
    /\ lookups = [w \in Workers |-> <<>>]
    /\ lastRun = NoRun
    /\ source = [w \in Workers |-> ""]
    /\ target = [w \in Workers |-> ""]
    /\ cascade = [w \in Workers |-> NewCascade]
    /\ state = [w \in Workers |-> NilState]
    /\ steps = [w \in Workers |-> <<>>]
    /\ cloned = FALSE
    /\ commits = InitialCommits
    /\ remote = InitialRemote
    /\ tracking = NoRefs
    /\ locals = NoRefs
    /\ head = ""

NoPipeline == PipelineStart(<<>>)

(***************************************************************************)
(* The inbound handler.                                                    *)
(***************************************************************************)
\* EventHandler.Handle: the event of an authenticated request is sent to the
\* channel; the send waits while the channel is full
Handle ==
    /\ running
    /\ arrivals # <<>>
    /\ ChanCanSend(events)
    /\ events' = Append(events, Head(arrivals))
    /\ arrivals' = Tail(arrivals)
    /\ UNCHANGED <<received, running, workerVars, engineVars, repoVars, lastRun, cmpVars, buildVars>>

(***************************************************************************)
(* The worker, one statement at a time.                                    *)
(***************************************************************************)
At(w, label) == running /\ wpc[w] = label

Goto(w, label) == wpc' = [wpc EXCEPT ![w] = label]

\* for e := range event
Receive(w) ==
    /\ At(w, "Receive")
    /\ events # <<>>
    /\ cur' = [cur EXCEPT ![w] = ChanRecv(events).value]
    /\ events' = ChanRecv(events).rest
    /\ received' = Append(received, ChanRecv(events).value.id)
    /\ client' = [client EXCEPT ![w] = FALSE]
    /\ opts' = [opts EXCEPT ![w] = NoOptions]
    /\ prCalls' = [prCalls EXCEPT ![w] = <<>>]
    /\ lookups' = [lookups EXCEPT ![w] = <<>>]
    /\ source' = [source EXCEPT ![w] = ""]
    /\ target' = [target EXCEPT ![w] = ""]
    /\ cascade' = [cascade EXCEPT ![w] = NewCascade]
    /\ state' = [state EXCEPT ![w] = NilState]
    /\ steps' = [steps EXCEPT ![w] = <<>>]
    /\ Goto(w, "GetCloneURL")
    /\ UNCHANGED <<arrivals, running, repoVars, lastRun, cmpVars, buildVars>>

Lookup(call, ok) == [call |-> call, ok |-> ok]

Looked(w, call, ok) == lookups' = [lookups EXCEPT ![w] = Append(@, Lookup(call, ok))]

\* an error that is logged only: the worker goes on to the next statement
FallThroughToNewClient == "NewClient"

\* continue, after the error of GetCloneURL
AfterCloneURLError == "Receive"

\* continue, after the error of GetCascadeOptions
AfterCascadeOptionsError == "Receive"

\* url, err := api.GetCloneURL("https"); an error skips the event
GetCloneURL(w) ==
    /\ At(w, "GetCloneURL")
    /\ \E ok \in BOOLEAN :
          /\ Looked(w, "GetCloneURL", ok)
          /\ Goto(w, IF ok THEN "NewClient" ELSE AfterCloneURLError)
    /\ UNCHANGED <<chanVars, running, cur, client, opts, prCalls, lastRun, engineVars, repoVars, cmpVars, buildVars>>

\* c, err := NewClient(...): the repository at the path is opened, or cloned
\* when there is none; an error is logged and the worker goes on with c = nil
NewClient(w) ==
    /\ At(w, "NewClient")
    /\ \/ /\ cloned
          /\ client' = [client EXCEPT ![w] = TRUE]
          /\ UNCHANGED repoVars
       \/ /\ ~cloned
          /\ client' = [client EXCEPT ![w] = TRUE]
          /\ cloned' = TRUE
          /\ tracking' = remote
          /\ locals' = SetRef(NoRefs, DefaultMaster, remote[DefaultMaster])
          /\ head' = DefaultMaster
          /\ UNCHANGED <<commits, remote>>
       \/ /\ client' = [client EXCEPT ![w] = FALSE]
          /\ UNCHANGED repoVars
    /\ Goto(w, "GetCascadeOptions")
    /\ UNCHANGED <<chanVars, running, cur, opts, prCalls, lookups, lastRun, engineVars, cmpVars, buildVars>>

\* opts, err := api.GetCascadeOptions(...); an error skips the event
GetCascadeOptions(w) ==
    /\ At(w, "GetCascadeOptions")
    /\ \/ \E o \in RepositoryOptions :
             /\ opts' = [opts EXCEPT ![w] = o]
             /\ Looked(w, "GetCascadeOptions", TRUE)
             /\ Goto(w, "CheckDestination")
       \/ /\ Looked(w, "GetCascadeOptions", FALSE)
          /\ Goto(w, AfterCascadeOptionsError)
          /\ UNCHANGED opts
    /\ UNCHANGED <<chanVars, running, cur, client, prCalls, lastRun, engineVars, repoVars, cmpVars, buildVars>>

\* the destination is on the development track and not on the release track
SkipsCascade(options, destination) ==
    /\ HasPrefix(Spelling(destination), Spelling(options.DevelopmentName))
    /\ ~HasPrefix(Spelling(destination), Spelling(options.ReleasePrefix))

\* the check of the destination, then the call c.CascadeMerge(destination, opts)
CheckDestination(w) ==
    /\ At(w, "CheckDestination")
    /\ Goto(w, IF SkipsCascade(opts[w], cur[w].dest) THEN "Receive"
               ELSE "RemoveLocalBranches")
    /\ UNCHANGED <<chanVars, running, cur, client, opts, prCalls, lookups, lastRun, engineVars, repoVars, cmpVars, buildVars>>

(***************************************************************************)
(* The repository client: what each call does to the repository, by        *)
(* whether it returns an error (ok = FALSE) or not.                        *)
(***************************************************************************)
\* Client.Checkout: the local branch is created from the remote branch (from
\* the head commit when there is none) unless it exists; the tree is checked
\* out; HEAD is set to the branch, and an error of SetHead is dropped
Checkout(branchName, ok) ==
    LET commit == IF branchName \in DOMAIN tracking THEN tracking[branchName]
                  ELSE locals[head]
        created == IF branchName \in DOMAIN locals THEN locals
                   ELSE SetRef(locals, branchName, commit)
    IN  /\ \/ /\ ok
              /\ locals' = created
              /\ head' \in {branchName, head}
           \/ /\ ~ok
              /\ locals' \in {locals, created}
              /\ head' = head
        /\ UNCHANGED <<cloned, commits, remote, tracking>>

\* Client.Reset: the branch HEAD points to is hard-reset to the tip of the
\* remote branch branchName
Reset(branchName, ok) ==
    /\ \/ /\ ok
          /\ branchName \in DOMAIN tracking
          /\ locals' = SetRef(locals, head, tracking[branchName])
       \/ /\ ~ok
          /\ locals' = locals
    /\ UNCHANGED <<cloned, commits, remote, tracking, head>>

\* the analysis without the up-to-date case
NeverUpToDate(ours, theirs) == FALSE

\* the merge analysis of HEAD against the tip of the source branch:
\* analysis&git.MergeAnalysisUpToDate != 0
UpToDate(ours, theirs) == theirs \in Ancestors(ours)

\* Client.MergeBranches: nothing to do when HEAD contains the source; else a
\* commit with the parents (HEAD commit, source tip) is created on HEAD. The
\* call fails before the commit (lookup, analysis, conflict, ...) or after it
\* (StateCleanup).
MergeBranches(sourceBranchName, destinationBranchName, ok) ==
    LET found == {sourceBranchName, destinationBranchName} \subseteq DOMAIN locals
        ours == locals[head]
        theirs == locals[sourceBranchName]
        graph == WithMergeCommit(commits, ours, theirs)
        merged == SetRef(locals, head, MergeCommitId(graph, ours, theirs))
    IN  /\ \/ /\ ok
              /\ found
              /\ UpToDate(ours, theirs)
              /\ UNCHANGED <<commits, locals>>
           \/ /\ ok
              /\ found
              /\ ~UpToDate(ours, theirs)
              /\ commits' = graph
              /\ locals' = merged
           \/ /\ ~ok
              /\ UNCHANGED <<commits, locals>>
           \/ /\ ~ok
              /\ found
              /\ ~UpToDate(ours, theirs)
              /\ commits' = graph
              /\ locals' = merged
        /\ UNCHANGED <<cloned, remote, tracking, head>>

\* Client.Push: the remote takes the local branch when that is a
\* fast-forward of its own
Push(branchName, ok) ==
    /\ \/ /\ ok
          /\ branchName \in DOMAIN locals
          /\ branchName \in DOMAIN remote => remote[branchName] \in Ancestors(locals[branchName])
          /\ remote' = SetRef(remote, branchName, locals[branchName])
          /\ tracking' = SetRef(tracking, branchName, locals[branchName])
       \/ /\ ~ok
          /\ UNCHANGED <<remote, tracking>>
    /\ UNCHANGED <<cloned, commits, locals, head>>

\* Client.Fetch: the remote-tracking branches follow the remote, with pruning
Fetch(ok) ==
    /\ \/ /\ ok
          /\ tracking' = remote
       \/ /\ ~ok
          /\ tracking' = tracking
    /\ UNCHANGED <<cloned, commits, remote, locals, head>>

\* Client.RemoveLocalBranches: the local branches other than master are
\* deleted in the order the iterator gives them, up to the first deletion
\* that fails (that of the branch HEAD points to always does)
RemoveLocalBranches(deleted) ==
    /\ deleted \subseteq (DOMAIN locals \ {DefaultMaster, head})
    /\ locals' = DropRefs(locals, deleted)
    /\ UNCHANGED <<cloned, commits, remote, tracking, head>>

\* what RemoveLocalBranches returns: the error of NewBranchIterator, and nil
\* once there is an iterator, whatever the deletions did
RemoveLocalBranchesError(iterated) == ~iterated

(***************************************************************************)
(* Client.CascadeMerge, one client call at a time.                         *)
(***************************************************************************)
Log(w, op, from, branch, ok) ==
    steps' = [steps EXCEPT ![w] = Append(@, Step(op, from, branch, ok))]

\* return st
Return(w, st) ==
    /\ state' = [state EXCEPT ![w] = st]
    /\ Goto(w, "Returned")

\* a step whose error is not checked
StepOutcomeErrorDropped(w, ok, label, failure) ==
    Goto(w, label) /\ UNCHANGED state

\* if err != nil { return <failure> }, else on to the next statement
StepOutcome(w, ok, label, failure) ==
    IF ok THEN Goto(w, label) /\ UNCHANGED state
    ELSE Return(w, failure)

\* options == nil: the defaults
EffectiveOptions(options) ==
    IF options = NoOptions THEN CascadeOptions("develop", "release/") ELSE options

\* the failure record of a step before the loop
FailureBeforeLoop == Failure("", "")

\* the failure record of a step of the loop
FailureInLoop(s, t) == Failure(s, t)

\* the loop without source = target
KeepSource(s, t) == s

\* source = target
NextSource(s, t) == t

CMRemoveLocalBranches(w) ==
    /\ At(w, "RemoveLocalBranches")
    /\ \/ /\ ~client[w]
          /\ running' = FALSE
          /\ UNCHANGED <<wpc, engineVars, repoVars>>
       \/ /\ client[w]
          /\ \E iterated \in BOOLEAN, deleted \in SUBSET DOMAIN locals :
                /\ ~iterated => deleted = {}
                /\ RemoveLocalBranches(deleted)
                /\ Log(w, "RemoveLocalBranches", "", "", ~RemoveLocalBranchesError(iterated))
                /\ StepOutcome(w, ~RemoveLocalBranchesError(iterated), "Fetch", FailureBeforeLoop)
          /\ UNCHANGED <<running, source, target, cascade>>
    /\ UNCHANGED <<chanVars, cur, client, opts, prCalls, lookups, lastRun, cmpVars, buildVars>>

CMFetch(w) ==
    /\ At(w, "Fetch")
    /\ \E ok \in BOOLEAN :
          /\ Fetch(ok)
          /\ Log(w, "Fetch", "", "", ok)
          /\ StepOutcome(w, ok, "BuildCascade", FailureBeforeLoop)
    /\ UNCHANGED <<chanVars, running, cur, client, opts, prCalls, lookups, lastRun, source, target, cascade, cmpVars, buildVars>>

\* cascade, err := c.BuildCascade(options, branchName), on the remote-tracking
\* branches in the order the iterator gives them; then source := branchName
CMBuildCascade(w) ==
    /\ At(w, "BuildCascade")
    /\ \/ /\ \E enum \in Reorderings(DOMAIN tracking) :
                cascade' = [cascade EXCEPT ![w] =
                    BuildCascade(EffectiveOptions(opts[w]), enum, cur[w].dest)]
          /\ source' = [source EXCEPT ![w] = cur[w].dest]
          /\ Log(w, "BuildCascade", "", "", TRUE)
          /\ StepOutcome(w, TRUE, "CheckoutSource", FailureBeforeLoop)
       \/ /\ Log(w, "BuildCascade", "", "", FALSE)
          /\ StepOutcome(w, FALSE, "CheckoutSource", FailureBeforeLoop)
          /\ UNCHANGED <<cascade, source>>
    /\ UNCHANGED <<chanVars, running, cur, client, opts, prCalls, lookups, lastRun, target, repoVars, cmpVars, buildVars>>

CMCheckoutSource(w) ==
    /\ At(w, "CheckoutSource")
    /\ \E ok \in BOOLEAN :
          /\ Checkout(source[w], ok)
          /\ Log(w, "Checkout", "", source[w], ok)
          /\ StepOutcome(w, ok, "ResetSource", FailureBeforeLoop)
    /\ UNCHANGED <<chanVars, running, cur, client, opts, prCalls, lookups, lastRun, source, target, cascade, cmpVars, buildVars>>

CMResetSource(w) ==
    /\ At(w, "ResetSource")
    /\ \E ok \in BOOLEAN :
          /\ Reset(source[w], ok)
          /\ Log(w, "Reset", "", source[w], ok)
          /\ StepOutcome(w, ok, "Next", FailureBeforeLoop)
    /\ UNCHANGED <<chanVars, running, cur, client, opts, prCalls, lookups, lastRun, source, target, cascade, cmpVars, buildVars>>

\* target := cascade.Next(); target != "" enters the loop body, "" returns nil
CMNext(w) ==
    /\ At(w, "Next")
    /\ target' = [target EXCEPT ![w] = CascadeNextName(cascade[w])]
    /\ cascade' = [cascade EXCEPT ![w] = CascadeAdvance(cascade[w])]
    /\ IF CascadeNextName(cascade[w]) # ""
       THEN Goto(w, "CheckoutTarget") /\ UNCHANGED state
       ELSE Return(w, NilState)
    /\ UNCHANGED <<chanVars, running, cur, client, opts, prCalls, lookups, lastRun, source, steps, repoVars, cmpVars, buildVars>>

CMCheckoutTarget(w) ==
    /\ At(w, "CheckoutTarget")
    /\ \E ok \in BOOLEAN :
          /\ Checkout(target[w], ok)
          /\ Log(w, "Checkout", source[w], target[w], ok)
          /\ StepOutcome(w, ok, "ResetTarget", FailureInLoop(source[w], target[w]))
    /\ UNCHANGED <<chanVars, running, cur, client, opts, prCalls, lookups, lastRun, source, target, cascade, cmpVars, buildVars>>

CMResetTarget(w) ==
    /\ At(w, "ResetTarget")
    /\ \E ok \in BOOLEAN :
          /\ Reset(target[w], ok)
          /\ Log(w, "Reset", source[w], target[w], ok)
          /\ StepOutcome(w, ok, "MergeBranches", FailureInLoop(source[w], target[w]))
    /\ UNCHANGED <<chanVars, running, cur, client, opts, prCalls, lookups, lastRun, source, target, cascade, cmpVars, buildVars>>

CMMergeBranches(w) ==
    /\ At(w, "MergeBranches")
    /\ \E ok \in BOOLEAN :
          /\ MergeBranches(source[w], target[w], ok)
          /\ Log(w, "MergeBranches", source[w], target[w], ok)
          /\ StepOutcome(w, ok, "Push", FailureInLoop(source[w], target[w]))
    /\ UNCHANGED <<chanVars, running, cur, client, opts, prCalls, lookups, lastRun, source, target, cascade, cmpVars, buildVars>>

CMPush(w) ==
    /\ At(w, "Push")
    /\ \E ok \in BOOLEAN :
          /\ Push(target[w], ok)
          /\ Log(w, "Push", source[w], target[w], ok)
          /\ StepOutcome(w, ok, "Next", FailureInLoop(source[w], target[w]))
          /\ source' = [source EXCEPT ![w] =
                IF ok THEN NextSource(source[w], target[w]) ELSE source[w]]
    /\ UNCHANGED <<chanVars, running, cur, client, opts, prCalls, lookups, lastRun, target, cascade, cmpVars, buildVars>>

(***************************************************************************)
(* The worker after the engine has returned.                               *)
(***************************************************************************)
\* the pull request with source and destination exchanged
PullRequestReversed(st) == [source |-> st.Target, destination |-> st.Source]

\* the source and destination of the pull request opened for a failure
PullRequestFor(st) == [source |-> st.Source, destination |-> st.Target]

\* if state != nil
Returned(w) ==
    /\ At(w, "Returned")
    /\ Goto(w, IF state[w].failed THEN "CreatePullRequest" ELSE "Receive")
    /\ lastRun' = RunOf(cur[w].dest, state[w].failed, remote, commits)
    /\ UNCHANGED <<chanVars, running, cur, client, opts, prCalls, lookups, engineVars, repoVars, cmpVars, buildVars>>

\* pr, err := api.CreatePullRequest(title, description, state.Source,
\* state.Target); either outcome is logged and the loop goes on
CreatePullRequest(w) ==
    /\ At(w, "CreatePullRequest")
    /\ \E ok \in BOOLEAN :
          prCalls' = [prCalls EXCEPT ![w] = Append(@, PullRequestFor(state[w]))]
    /\ Goto(w, "Receive")
    /\ UNCHANGED <<chanVars, running, cur, client, opts, lookups, lastRun, engineVars, repoVars, cmpVars, buildVars>>

WorkerStep(w) ==
    \/ Receive(w)
    \/ GetCloneURL(w)
    \/ NewClient(w)
    \/ GetCascadeOptions(w)
    \/ CheckDestination(w)
    \/ CMRemoveLocalBranches(w)
    \/ CMFetch(w)
    \/ CMBuildCascade(w)
    \/ CMCheckoutSource(w)
    \/ CMResetSource(w)
    \/ CMNext(w)
    \/ CMCheckoutTarget(w)
    \/ CMResetTarget(w)
    \/ CMMergeBranches(w)
    \/ CMPush(w)
    \/ Returned(w)
    \/ CreatePullRequest(w)

Next ==
    \/ Handle
    \/ \E w \in Workers : WorkerStep(w)

Init ==
    /\ \E deliveries \in Deliveries : PipelineStart(deliveries)
    /\ NoCompare
    /\ NoBuild

Spec == Init /\ [][Next]_vars

InitQueue ==
    /\ PipelineStart(Burst)
    /\ NoCompare
    /\ NoBuild

SpecQueue == InitQueue /\ [][Next]_vars

(***************************************************************************)
(* compareVersions on every triple of bounded version strings.             *)
(***************************************************************************)
VersionAlphabet == {"0", "1", ".", "x"}

Versions == UNION {[1..k -> VersionAlphabet] : k \in 0..MaxVerLen}

InitCmp ==
    /\ v1 \in Versions
    /\ v2 \in Versions
    /\ v3 \in Versions
    /\ cmpOut = <<>>
    /\ NoBuild
    /\ NoPipeline

\* the calls compareVersions(v1, v2), (v2, v1), (v2, v3), (v1, v3), (v1, v1)
Compare ==
    /\ cmpOut = <<>>
    /\ cmpOut' = <<compareVersions(v1, v2), compareVersions(v2, v1),
                   compareVersions(v2, v3), compareVersions(v1, v3),
                   compareVersions(v1, v1)>>
    /\ UNCHANGED <<v1, v2, v3, buildVars, pipelineVars>>

NextCmp == Compare

SpecCmp == InitCmp /\ [][NextCmp]_vars

(***************************************************************************)
(* BuildCascade on every bounded enumeration of remote branches.           *)
(***************************************************************************)
\* the enumerations of at most MaxBranches distinct remote branches
Enumerations ==
    UNION {{s \in [1..k -> BranchNames] : \A i, j \in 1..k : s[i] = s[j] => i = j}
           : k \in 0..MaxBranches}

InitBuild ==
    /\ bEnum \in Enumerations
    /\ bOpts \in OptionsSet
    /\ bStart \in BranchNames \cup {UnknownBranch}
    /\ bOut = <<>>
    /\ NoCompare
    /\ NoPipeline

\* c.BuildCascade(options, startBranch) on the branches as enumerated
Build ==
    /\ bOut = <<>>
    /\ bOut' = <<BaseSequence(bOpts, bEnum),
                 Truncated(bOpts, bEnum, bStart).Branches,
                 BuildCascade(bOpts, bEnum, bStart).Branches>>
    /\ UNCHANGED <<bEnum, bOpts, bStart, cmpVars, pipelineVars>>

NextBuild == Build

SpecBuild == InitBuild /\ [][NextBuild]_vars

(***************************************************************************)
(* Claims about BuildCascade                                               *)
(***************************************************************************)
Occurrences(s, name) == Cardinality({i \in 1..Len(s) : s[i] = name})

\* C7: for any remote branches, options and startBranch, the sequence
\* BuildCascade returns holds the stable branch exactly once, as its last
\* element.
StableBranchOnceAndLast ==
    bOut # <<>> =>
        /\ bOut[3] # <<>>
        /\ bOut[3][Len(bOut[3])] = DefaultMaster
        /\ Occurrences(bOut[3], DefaultMaster) = 1

\* a build that found the stable branch inside the truncated sequence and had
\* to move it
StableBranchMoved ==
    /\ bOut # <<>>
    /\ IndexOf(bOut[2], DefaultMaster) # 0
    /\ IndexOf(bOut[2], DefaultMaster) < Len(bOut[2])

\* C8: when startBranch is at index i of the base sequence, the sequence after
\* the truncation step is base[i+1:]; when it is absent it is the base
\* unchanged; the stable-branch policy is applied to that sequence.
TruncationCorrect ==
    bOut # <<>> =>
        LET base == bOut[1]
            truncated == bOut[2]
        IN  /\ \A i \in 1..Len(base) :
                  base[i] = bStart => truncated = SubSeq(base, i + 1, Len(base))
            /\ (\A i \in 1..Len(base) : base[i] # bStart) => truncated = base
            /\ bOut[3] = MasterLast([NewCascade EXCEPT !.Branches = truncated]).Branches

\* a build whose startBranch is inside the base sequence, with branches on
\* both sides of it
TruncatedInside ==
    /\ bOut # <<>>
    /\ \E i \in 2..(Len(bOut[1]) - 1) : bOut[1][i] = bStart

\* C9: for the same set of remote branches, options and startBranch,
\* BuildCascade returns the same sequence whatever the order in which the
\* repository enumerates the branches.
BuilderDeterministic ==
    bOut # <<>> =>
        \A p \in Reorderings({bEnum[i] : i \in 1..Len(bEnum)}) :
            BuildCascade(bOpts, p, bStart).Branches = bOut[3]

(***************************************************************************)
(* Claims about compareVersions                                            *)
(***************************************************************************)
\* the integer components of a version string
Components(v) == [i \in 1..Len(Split(v)) |-> Atoi(Split(v)[i])]

\* lexicographic order on integer sequences, a proper prefix first
LexLess(s, t) ==
    \/ /\ Len(s) < Len(t)
       /\ \A i \in 1..Len(s) : s[i] = t[i]
    \/ \E k \in 1..Len(s) :
          /\ k <= Len(t)
          /\ s[k] < t[k]
          /\ \A i \in 1..(k - 1) : s[i] = t[i]

LexCompare(s, t) == IF LexLess(s, t) THEN -1 ELSE IF LexLess(t, s) THEN 1 ELSE 0

\* C10: compareVersions is a strict weak ordering: compare(a,a) = 0,
\* compare(a,b) = -compare(b,a), it is transitive, and it is the
\* lexicographic order on the integer components, a non-numeric component
\* counting as 0 and a proper component-prefix sorting first.
ComparatorStrictWeakOrder ==
    cmpOut # <<>> =>
        LET ab == cmpOut[1]
            ba == cmpOut[2]
            bc == cmpOut[3]
            ac == cmpOut[4]
            aa == cmpOut[5]
        IN  /\ aa = 0
            /\ ab \in {-1, 0, 1}
            /\ ab = 0 - ba
            /\ (ab <= 0 /\ bc <= 0) => ac <= 0
            /\ (ab < 0 /\ bc <= 0) => ac < 0
            /\ (ab <= 0 /\ bc < 0) => ac < 0
            /\ (ab = 0 /\ bc = 0) => ac = 0
            /\ ab = LexCompare(Components(v1), Components(v2))

\* a comparison decided by length alone, between a version with a
\* non-numeric component and a longer one, with a third version above both
ComparedPrefix ==
    /\ cmpOut # <<>>
    /\ Len(Split(v1)) < Len(Split(v2))
    /\ \A i \in 1..Len(Split(v1)) : Atoi(Split(v1)[i]) = Atoi(Split(v2)[i])
    /\ \E i \in 1..Len(v1) : v1[i] = "x"
    /\ cmpOut[1] = -1
    /\ cmpOut[3] = -1
    /\ cmpOut[4] = -1

(***************************************************************************)
(* Claims about the worker and the engine                                  *)
(***************************************************************************)
EngineLabels ==
    {"RemoveLocalBranches", "Fetch", "BuildCascade", "CheckoutSource",
     "ResetSource", "Next", "CheckoutTarget", "ResetTarget", "MergeBranches",
     "Push"}

\* the worker has left the engine: the run has returned
HasReturned(w) ==
    /\ steps[w] # <<>>
    /\ wpc[w] \in {"Returned", "CreatePullRequest", "Receive"}

\* the worker is done with the event it took
HasFinished(w) == cur[w] # NoEvent /\ wpc[w] = "Receive"

LastStep(w) == steps[w][Len(steps[w])]

\* C1: at most one engine run is active, and an event is being handled (its
\* engine run and pull-request call included) only by one worker, which took
\* it after every event received before it was finished.
AtMostOneEngineRun ==
    /\ Cardinality({w \in Workers : wpc[w] \in EngineLabels}) <= 1
    /\ \A w \in Workers :
          wpc[w] # "Receive" =>
              /\ cur[w].id = received[Len(received)]
              /\ \A u \in Workers \ {w} : wpc[u] = "Receive"

\* an engine run in the middle of a merge while another event waits in the
\* channel
EngineRunWhileQueued ==
    \E w \in Workers : wpc[w] = "MergeBranches" /\ events # <<>>

\* C2: the channel never holds more than its capacity of 100, no event is
\* dropped, duplicated or altered (a sender waits while the channel is full),
\* and the worker takes the events in the order they were enqueued.
BoundedLosslessFifo ==
    /\ Len(events) <= 100
    /\ LET ids == received \o [i \in 1..Len(events) |-> events[i].id]
                           \o [i \in 1..Len(arrivals) |-> arrivals[i].id]
       IN  ids = [i \in 1..Len(Burst) |-> i]
    /\ \A i \in 1..Len(events) : events[i] = Burst[events[i].id]
    /\ \A w \in Workers : cur[w] # NoEvent => cur[w] = Burst[cur[w].id]

\* the channel is full again after the worker has taken events, and a sender
\* is still waiting
FullChannelSenderWaiting ==
    /\ Len(events) = 100
    /\ arrivals # <<>>
    /\ received # <<>>

\* C3: whenever an engine run fails, at whichever step, the failure record
\* names both the source branch and the target branch.
FailureNamesBothBranches ==
    \A w \in Workers :
        state[w].failed => state[w].Source # "" /\ state[w].Target # ""

\* C4: for an engine run that returned a failure record the worker makes
\* exactly one CreatePullRequest call, from the record's source to the
\* record's target, which for a failure inside the loop are the source and
\* target of the failed step; for a run that returned success it makes none.
PullRequestPerFailure ==
    \A w \in Workers :
        /\ Len(prCalls[w]) <= 1
        /\ prCalls[w] # <<>> => HasReturned(w) /\ state[w].failed
        /\ (HasReturned(w) /\ HasFinished(w)) =>
              prCalls[w] =
                  IF state[w].failed
                  THEN <<[source |-> state[w].Source, destination |-> state[w].Target]>>
                  ELSE <<>>
        /\ (HasReturned(w) /\ state[w].failed /\ LastStep(w).from # "") =>
              /\ state[w].Source = LastStep(w).from
              /\ state[w].Target = LastStep(w).branch

\* the pull request release/1.0 -> release/1.2 opened after the merge of
\* release/1.0 into release/1.2 failed
PullRequestAfterConflict ==
    \E w \in Workers :
        /\ HasFinished(w)
        /\ HasReturned(w)
        /\ LastStep(w) = Step("MergeBranches", "release/1.0", "release/1.2", FALSE)
        /\ prCalls[w] = <<[source |-> "release/1.0", destination |-> "release/1.2"]>>

\* the calls of one kind made in a run, as <<source, target>> pairs
Calls(w, op) ==
    LET made == SelectSeq(steps[w], LAMBDA s : s.op = op)
    IN  [i \in 1..Len(made) |-> <<made[i].from, made[i].branch>>]

\* the hops of a cascade from a trigger: each target with the branch before it
Hops(trigger, targets) ==
    [i \in 1..Len(targets) |->
        <<IF i = 1 THEN trigger ELSE targets[i - 1], targets[i]>>]

FailureStopsTheCascade ==
    \A w \in Workers :
        \A i \in 1..Len(steps[w]) :
            /\ ~steps[w][i].ok =>
                  /\ i = Len(steps[w])
                  /\ HasReturned(w)
                  /\ state[w].failed
            /\ steps[w][i].op = "Push" =>
                  /\ i > 1
                  /\ steps[w][i - 1] =
                        Step("MergeBranches", steps[w][i].from, steps[w][i].branch, TRUE)

\* the merge into release/1.2 failed after a commit was made on it; the run
\* has ended, master was not touched and the remote release/1.2 is unchanged
ConflictLeavesTargetUnpushed ==
    \E w \in Workers :
        /\ HasFinished(w)
        /\ HasReturned(w)
        /\ LastStep(w) = Step("MergeBranches", "release/1.0", "release/1.2", FALSE)
        /\ "release/1.2" \in DOMAIN locals
        /\ locals["release/1.2"] # remote["release/1.2"]
        /\ remote = InitialRemote

(***************************************************************************)
(* The worker's lookups.                                                   *)
(***************************************************************************)
LookupFailed(w) == \E i \in 1..Len(lookups[w]) : ~lookups[w][i].ok

\* C11: an event whose clone URL or whose cascade options could not be read
\* is skipped: no client call of the engine is made for it, no pull request
\* is opened for it, and the worker is back at the head of its loop, alive,
\* where it takes the next event of the channel when there is one
SkippedOnLookupError ==
    \A w \in Workers :
        LookupFailed(w) =>
            /\ running
            /\ wpc[w] = "Receive"
            /\ steps[w] = <<>>
            /\ prCalls[w] = <<>>
            /\ events # <<>> => ENABLED Receive(w)

\* the options of an event could not be read, after its URL was and the
\* repository was opened, and the next event waits in the channel
NextEventAfterLookupError ==
    \E w \in Workers :
        /\ lookups[w] = <<Lookup("GetCloneURL", TRUE), Lookup("GetCascadeOptions", FALSE)>>
        /\ client[w]
        /\ events # <<>>

(***************************************************************************)
(* The skip policy.                                                        *)
(***************************************************************************)
\* the worker is past the check of the destination of its event, with the
\* URL and the options of the event read
PastCheckDestination(w) ==
    /\ opts[w] # NoOptions
    /\ wpc[w] # "CheckDestination"

\* the call c.CascadeMerge has been made for the event of the worker
EngineCalled(w) == wpc[w] \in EngineLabels \/ steps[w] # <<>>

\* C12: for an event whose destination is the development branch (and does
\* not carry the release prefix) the worker makes no client call of the
\* engine and opens no pull request; for every other destination whose URL
\* and options were read it calls the engine with the destination as trigger
SkipsOnlyDevelopment ==
    \A w \in Workers :
        PastCheckDestination(w) =>
            IF /\ cur[w].dest = opts[w].DevelopmentName
               /\ ~HasPrefix(Spelling(cur[w].dest), Spelling(opts[w].ReleasePrefix))
            THEN ~EngineCalled(w) /\ prCalls[w] = <<>>
            ELSE /\ EngineCalled(w)
                 /\ Len(steps[w]) >= 4 => steps[w][4].branch = cur[w].dest

(***************************************************************************)
(* A second run for the same trigger.                                      *)
(***************************************************************************)
\* the engine run of the worker has returned success, for the trigger of the
\* run that returned before it, which had succeeded too
SecondRun(w) ==
    /\ wpc[w] = "Returned"
    /\ ~state[w].failed
    /\ ~lastRun.failed
    /\ lastRun.trigger = cur[w].dest

\* C13: when a run for a trigger has succeeded, a second run for the same
\* trigger that succeeds, on the remote as the first left it, has created no
\* commit and has left the tip of every remote branch where it was
RunIdempotent ==
    \A w \in Workers :
        SecondRun(w) =>
            /\ Len(commits) = lastRun.commits
            /\ remote = lastRun.remote

(***************************************************************************)
(* The merge of a source the destination already contains.                 *)
(***************************************************************************)
\* the worker is about to call MergeBranches(source, target) with the target
\* checked out, and the tip of the source is the tip of the target or an
\* ancestor of it
AlreadyMerged(w) ==
    /\ wpc[w] = "MergeBranches"
    /\ {source[w], target[w]} \subseteq DOMAIN locals
    /\ head = target[w]
    /\ locals[source[w]] \in Ancestors(locals[target[w]])

\* MergeBranches can return nil with the commits and the branches as they are
ReturnsSuccessUnchanged(w) ==
    ENABLED (CMMergeBranches(w) /\ wpc'[w] = "Push" /\ UNCHANGED repoVars)

\* the call of MergeBranches the worker makes creates no commit and moves no
\* branch, local or remote
MergeChangesNothing(w) ==
    wpc'[w] # wpc[w] => UNCHANGED <<commits, locals, tracking, remote, head>>

\* C14: when the destination already contains the tip of the source,
\* MergeBranches returns success without a commit, and no return of it creates
\* a commit or moves the tip of the destination
MergeNoOp ==
    /\ [](\A w \in Workers : running /\ AlreadyMerged(w) => ReturnsSuccessUnchanged(w))
    /\ [][\A w \in Workers : AlreadyMerged(w) => MergeChangesNothing(w)]_vars

\* MergeBranches has returned success for a target that is checked out and
\* still at the tip it was reset to, the source being another branch
MergedNothing ==
    \E w \in Workers :
        /\ wpc[w] = "Push"
        /\ LastStep(w) = Step("MergeBranches", source[w], target[w], TRUE)
        /\ source[w] # target[w]
        /\ head = target[w]
        /\ {source[w], target[w]} \subseteq DOMAIN locals
        /\ locals[target[w]] = tracking[target[w]]

(***************************************************************************)
(* The order of the client calls of a run.                                 *)
(***************************************************************************)
\* the calls before the loop, for a trigger
Prologue(trigger) ==
    << <<"RemoveLocalBranches", "", "">>, <<"Fetch", "", "">>,
       <<"BuildCascade", "", "">>, <<"Checkout", "", trigger>>,
       <<"Reset", "", trigger>> >>

\* the calls of one turn of the loop, in order
HopOps == <<"Checkout", "Reset", "MergeBranches", "Push">>

\* the i-th call of a run for the trigger over the targets: one of the five
\* before the loop, or one of the four of the turn for the k-th target
StepAt(trigger, targets, i) ==
    IF i <= 5 THEN Prologue(trigger)[i]
    ELSE LET k == ((i - 6) \div 4) + 1
         IN  <<HopOps[((i - 6) % 4) + 1],
               IF k = 1 THEN trigger ELSE targets[k - 1],
               targets[k]>>

StepsInAll(trigger, targets) == 5 + 4 * Len(targets)

\* C15: the client calls of a run are a beginning of: remove-local-branches,
\* fetch, build, checkout and reset of the trigger, then for each target in
\* cascade order checkout, reset, merge from the source, push; every call
\* but the last has succeeded, so no call of a hop is made before the push of
\* the hop before it succeeded, and none after a call that failed
StepsInOrder ==
    \A w \in Workers :
        LET made == steps[w]
            targets == cascade[w].Branches
        IN  /\ Len(made) <= StepsInAll(cur[w].dest, targets)
            /\ \A i \in 1..Len(made) :
                  /\ <<made[i].op, made[i].from, made[i].branch>> =
                        StepAt(cur[w].dest, targets, i)
                  /\ i < Len(made) => made[i].ok
            /\ wpc[w] \in EngineLabels /\ made # <<>> => LastStep(w).ok
            /\ HasReturned(w) =>
                  (state[w].failed <=> ~LastStep(w).ok)

\* a run has returned at the push of its second target, which failed
StoppedAtSecondPush ==
    \E w \in Workers :
        /\ HasReturned(w)
        /\ Len(steps[w]) = StepsInAll(cur[w].dest, <<"release/1.2", "master">>)
        /\ cascade[w].Branches = <<"release/1.2", "master">>
        /\ LastStep(w).op = "Push"
        /\ ~LastStep(w).ok

(***************************************************************************)
(* The sources of the merges of a run.                                     *)
(***************************************************************************)
\* the calls of MergeBranches of the run before its a-th call
MergesBefore(w, a) == {b \in 1..(a - 1) : steps[w][b].op = "MergeBranches"}

\* the last of some calls
Latest(calls) == CHOOSE b \in calls : \A c \in calls : c <= b

\* C16: the source of the first merge of a run is the trigger, the source of
\* each later merge is the target of the merge before it, whose push has
\* succeeded in between; the trigger is not the source of a later merge, and
\* no target is merged into twice
MergesHopByHop ==
    \A w \in Workers :
        \A a \in 1..Len(steps[w]) :
            steps[w][a].op = "MergeBranches" =>
                IF MergesBefore(w, a) = {}
                THEN steps[w][a].from = cur[w].dest
                ELSE LET b == Latest(MergesBefore(w, a))
                     IN  /\ steps[w][a].from = steps[w][b].branch
                         /\ steps[w][a].from # cur[w].dest
                         /\ \E c \in (b + 1)..(a - 1) :
                               steps[w][c] = Step("Push", steps[w][b].from, steps[w][b].branch, TRUE)
                         /\ \A c \in MergesBefore(w, a) :
                               steps[w][c].branch # steps[w][a].branch

\* the trigger master has been merged into development and development,
\* pushed, into release/1.0
SecondMergeFromFirstTarget ==
    \E w \in Workers :
        /\ Len(Calls(w, "MergeBranches")) >= 2
        /\ Calls(w, "MergeBranches")[1] = <<"master", "development">>
        /\ Calls(w, "MergeBranches")[2] = <<"development", "release/1.0">>

(***************************************************************************)
(* The start branch and the targets.                                       *)
(***************************************************************************)
\* C17: the sequence BuildCascade returns for a start branch does not hold
\* the start branch, the stable branch and branches outside the development
\* and release set included
StartBranchNeverTarget ==
    bOut # <<>> => IndexOf(bOut[3], bStart) = 0

(***************************************************************************)
(* The order of the cascade built.                                         *)
(***************************************************************************)
IsRelease(options, b) == HasPrefix(Spelling(b), Spelling(options.ReleasePrefix))

\* no branch of the sequence compares lower than one before it
Ascending(options, s) ==
    \A i, j \in 1..Len(s) : i < j => ~ReleaseLess(options, s[j], s[i])

\* the branches of the sequence that are not the stable branch
BeforeStable(s) == SelectSeq(s, LAMBDA b : b # DefaultMaster)

\* only the development branch, release branches and the stable branch
OnlyCascadeBranches(options, s) ==
    \A i \in 1..Len(s) :
        \/ s[i] = options.DevelopmentName
        \/ IsRelease(options, s[i])
        \/ s[i] = DefaultMaster

\* the stable branch is the last of the sequence
StableFollowsAll(s) ==
    /\ s # <<>>
    /\ \A i \in 1..Len(s) : s[i] = DefaultMaster <=> i = Len(s)

\* C18 as stated: the development branch, when there, is before every release
\* branch; the release branches are ascending under compareVersions; the
\* stable branch follows them all; no other branch is in the sequence
CascadeOrderAsStated ==
    bOut # <<>> =>
        LET s == bOut[3]
            releases == SelectSeq(s, LAMBDA b : IsRelease(bOpts, b))
        IN  /\ \A i, j \in 1..Len(s) :
                  s[i] = bOpts.DevelopmentName /\ IsRelease(bOpts, s[j]) /\ i # j => i < j
            /\ Ascending(bOpts, releases)
            /\ StableFollowsAll(s)
            /\ OnlyCascadeBranches(bOpts, s)

\* C18: the stable branch is the last of the sequence; before it, the
\* development branch, when there, is first, the others are release branches
\* ascending under compareVersions, and no other branch is in the sequence
CascadeOrder ==
    bOut # <<>> =>
        LET s == bOut[3]
            before == BeforeStable(s)
            releases == SelectSeq(before, LAMBDA b : b # bOpts.DevelopmentName)
        IN  /\ StableFollowsAll(s)
            /\ \A i \in 1..Len(before) : before[i] = bOpts.DevelopmentName => i = 1
            /\ \A i \in 1..Len(releases) : IsRelease(bOpts, releases[i])
            /\ Ascending(bOpts, releases)
            /\ OnlyCascadeBranches(bOpts, s)

\* the development branch enumerated between two release branches that come
\* in descending order, and all three in the cascade built
OrderedFromUnordered ==
    /\ bEnum = <<"release/1.2", "development", "release/1.0">>
    /\ bOpts = CascadeOptions("development", "release/")
    /\ bOut # <<>>
    /\ bOut[3] = <<"development", "release/1.0", "release/1.2", "master">>

(***************************************************************************)
(* The local branches after RemoveLocalBranches.                           *)
(***************************************************************************)
\* C19: when RemoveLocalBranches has returned success, so that the run goes
\* on to the fetch, no local branch but the stable branch is left; a deletion
\* that fails ends the run with the failure record before the fetch
RemoveLocalBranchesReports ==
    \A w \in Workers :
        wpc[w] = "Fetch" => DOMAIN locals \subseteq {DefaultMaster}

(***************************************************************************)
(* The client the engine is called on.                                     *)
(***************************************************************************)
\* C20: the worker calls the engine on a client that was opened or cloned
\* only: when NewClient has failed for an event the worker does not call
\* CascadeMerge for it and does not stop, but goes on to the next event
EngineOnlyOnClient ==
    \A w \in Workers :
        /\ EngineCalled(w) => client[w]
        /\ running

(***************************************************************************)
(* The tip a push publishes.                                               *)
(***************************************************************************)
\* the local tip of the target is the tip fetched for it
IsFetchedTip(w) == locals[target[w]] = tracking[target[w]]

\* the local tip of the target is a merge commit of the tip fetched for it,
\* first, and the tip of the source, second
IsMergeOfFetchedTip(w) ==
    /\ source[w] \in DOMAIN locals
    /\ commits[locals[target[w]]] = <<tracking[target[w]], locals[source[w]]>>

\* C21: whenever the engine is to push a target, the local tip of the target
\* is the remote tip fetched for it at the start of the run, or a merge commit
\* whose first parent is that tip and whose second parent is the tip of the
\* source; so the tip pushed contains the remote tip fetched
PushKeepsRemoteHistory ==
    \A w \in Workers :
        wpc[w] = "Push" =>
            /\ target[w] \in DOMAIN locals
            /\ target[w] \in DOMAIN tracking
            /\ IsFetchedTip(w) \/ IsMergeOfFetchedTip(w)
            /\ tracking[target[w]] \in Ancestors(locals[target[w]])

====
